---------------------------- MODULE Spec2Model ----------------------------
(***************************************************************************)
(* BattleQueue-Game: the turn queue (BattleQueue, RestrictedBattleQueue),  *)
(* the characters and skills that feed it, and the two minimax engines.    *)
(*                                                                         *)
(* The program's objects live in one heap: characters and queues are       *)
(* identified by integers, and every reference (a queue's _content, _p1,   *)
(* _p2, a character's enemy and battle_queue) is such an identifier, so    *)
(* that two queues sharing a character is a state the model can express.   *)
(***************************************************************************)
EXTENDS Integers, Sequences, FiniteSets, TLC

VARIABLES heap, lastOp, calls, tree, stack

vars == <<heap, lastOp, calls, tree, stack>>

\* Python's None, and an exception propagated to the caller.
None == 0
Error == -1

\* ------------------------------------------------------------------ bounds
\* The longest _content the model lets a queue grow to, and the most
\* entries its _can_add may then hold beyond the length of _content.
MaxLen == 4
MaxStale == 1
\* Operations performed after a copy() in SpecCopy.
MaxCopyOps == 1
\* The longest _content of a queue handed to the search engines.
MaxSearchLen == 2

\* ------------------------------------------------------------------ skills
\* a2_skills.py: each Skill subclass fixes (cost, damage) in its __init__.
get_sp_cost(skill) ==
    CASE skill = "MageAttack"      -> 5
      [] skill = "MageSpecial"     -> 30
      [] skill = "RogueAttack"     -> 3
      [] skill = "RogueSpecial"    -> 10
      [] skill = "VampireAttack"   -> 15
      [] skill = "VampireSpecial"  -> 20
      [] skill = "SorcererAttack"  -> 15
      [] skill = "SorcererSpecial" -> 20

skill_damage(skill) ==
    CASE skill = "MageAttack"      -> 20
      [] skill = "MageSpecial"     -> 40
      [] skill = "RogueAttack"     -> 15
      [] skill = "RogueSpecial"    -> 20
      [] skill = "VampireAttack"   -> 20
      [] skill = "VampireSpecial"  -> 30
      [] skill = "SorcererAttack"  -> 0
      [] skill = "SorcererSpecial" -> 25

\* a2_characters.py: self._defense of each class.
defense(cls) ==
    CASE cls = "mage"     -> 8
      [] cls = "rogue"    -> 10
      [] cls = "vampire"  -> 3
      [] cls = "sorcerer" -> 10

\* a2_characters.py: self._skills['A'] / self._skills['S'] of each class.
skills(cls, action) ==
    CASE cls = "mage"     -> IF action = "A" THEN "MageAttack" ELSE "MageSpecial"
      [] cls = "rogue"    -> IF action = "A" THEN "RogueAttack" ELSE "RogueSpecial"
      [] cls = "vampire"  -> IF action = "A" THEN "VampireAttack" ELSE "VampireSpecial"
      [] cls = "sorcerer" -> IF action = "A" THEN "SorcererAttack" ELSE "SorcererSpecial"

\* ------------------------------------------------------------- characters
\* Character.is_valid_action: the skill's cost is at most the character's SP.
is_valid_action(H, c, action) ==
    IF action \in {"A", "S"}
    THEN get_sp_cost(skills(H.cls[c], action)) <= H.sp[c]
    ELSE FALSE

\* Character.get_available_actions: the valid ones of 'A', 'S', in that order.
get_available_actions(H, c) ==
    (IF is_valid_action(H, c, "A") THEN <<"A">> ELSE <<>>)
    \o (IF is_valid_action(H, c, "S") THEN <<"S">> ELSE <<>>)

\* Character.reduce_sp
reduce_sp(H, c, cost) == [H EXCEPT !.sp[c] = @ - cost]

\* Character.set_hp / set_sp
set_hp(H, c, new_hp) == [H EXCEPT !.hp[c] = new_hp]
set_sp(H, c, new_sp) == [H EXCEPT !.sp[c] = new_sp]

\* Character.apply_damage: damage less the defense, HP floored at 0.
floored(hp) == IF hp > 0 THEN hp ELSE 0

apply_damage(H, c, damage) ==
    [H EXCEPT !.hp[c] = floored(@ - (damage - defense(H.cls[c])))]

\* Skill._deal_damage
deal_damage(H, skill, caster, target) ==
    apply_damage(reduce_sp(H, caster, get_sp_cost(skill)), target, skill_damage(skill))

\* ------------------------------------------------------------ BattleQueue
\* A queue object.  flag is history, not program state: the eligibility
\* given to each entry of content when it was appended, pruned with it.
NewQueue(restricted) ==
    [restricted |-> restricted, content |-> <<>>, can_add |-> <<>>,
     p1 |-> None, p2 |-> None, flag |-> <<>>]

PopFront(s) == IF s = <<>> THEN <<>> ELSE Tail(s)

\* BattleQueue._clean_queue: pop leading entries that have no action.
RECURSIVE clean_queue(_, _)
clean_queue(H, k) ==
    IF    H.q[k].content # <<>>
       /\ get_available_actions(H, H.q[k].content[1]) = <<>>
    THEN clean_queue([H EXCEPT !.q[k].content = Tail(@),
                               !.q[k].flag = PopFront(@)], k)
    ELSE H

\* A binding made again whenever the character is added to an empty queue.
bind_when_alone(H, k, c) ==
    IF H.q[k].p1 = None \/ Len(H.q[k].content) = 1
    THEN [H EXCEPT !.q[k].p1 = c, !.q[k].p2 = H.enemy[c]]
    ELSE H

\* if not self._p1: the first character added becomes _p1, its enemy _p2.
bind_participants(H, k, c) ==
    IF H.q[k].p1 = None
    THEN [H EXCEPT !.q[k].p1 = c, !.q[k].p2 = H.enemy[c]]
    ELSE H

\* BattleQueue.add: append; the first add ever binds _p1 and _p2.
BattleQueue_add(H, k, c, fl) ==
    bind_participants([H EXCEPT !.q[k].content = Append(@, c),
                                !.q[k].flag = Append(@, fl)], k, c)

\* The count RestrictedBattleQueue.add makes first: entries i of _content
\* that are the character and whose _can_add[i] is 'yes'.
added_yes_count(H, k, c) ==
    Cardinality({i \in 1..Len(H.q[k].content) :
                    H.q[k].content[i] = c /\ H.q[k].can_add[i] = "yes"})

\* An add that never looks at the head of the ledger.
add_rule_head_unchecked(H, k, c) ==
    IF H.q[k].content = <<>> THEN 1
    ELSE IF \A i \in 1..Len(H.q[k].content) : H.q[k].content[i] # c THEN 3
    ELSE IF c = H.q[k].content[1] /\ added_yes_count(H, k, c) # 2 THEN 4
    ELSE 5

\* The branch of RestrictedBattleQueue.add the call takes (1..5).
add_rule(H, k, c) ==
    IF H.q[k].content = <<>> THEN 1
    ELSE IF H.q[k].can_add[1] = "no" THEN 2
    ELSE IF \A i \in 1..Len(H.q[k].content) : H.q[k].content[i] # c THEN 3
    ELSE IF c = H.q[k].content[1] /\ added_yes_count(H, k, c) # 2 THEN 4
    ELSE 5

\* An add that puts the new flag at the front of the ledger.
add_flagged_front(H, k, c, fl) ==
    [BattleQueue_add(H, k, c, fl) EXCEPT !.q[k].can_add = <<fl>> \o @]

\* super().add(character); self._can_add.append(fl)
add_flagged(H, k, c, fl) ==
    [BattleQueue_add(H, k, c, fl) EXCEPT !.q[k].can_add = Append(@, fl)]

\* The body of RestrictedBattleQueue.add once its branch r is known:
\* branch 2 passes, branch 5 appends 'no', the others append 'yes'.
add_by_rule(H, k, c, r) ==
    bind_participants(IF r = 2 THEN H
                      ELSE add_flagged(H, k, c, IF r = 5 THEN "no" ELSE "yes"),
                      k, c)

\* RestrictedBattleQueue.add
RestrictedBattleQueue_add(H, k, c) == add_by_rule(H, k, c, add_rule(H, k, c))

add(H, k, c) ==
    IF H.q[k].restricted THEN RestrictedBattleQueue_add(H, k, c)
    ELSE BattleQueue_add(H, k, c, "yes")

\* What a call hands back: the heap it leaves, and the value returned or
\* the exception raised.
Return(H, ret) == [h |-> H, ret |-> ret, raised |-> FALSE]
Raise(H, ret) == [h |-> H, ret |-> ret, raised |-> TRUE]

\* A pop that takes the last entry of _content.
pop_last(H, k) ==
    IF H.q[k].content = <<>>
    THEN Raise(H, Error)
    ELSE Return([H EXCEPT !.q[k].content = SubSeq(@, 1, Len(@) - 1),
                          !.q[k].flag = SubSeq(@, 1, Len(@) - 1)],
                H.q[k].content[Len(H.q[k].content)])

\* A pop that returns None from an empty _content.
pop_head_or_none(H, k) ==
    IF H.q[k].content = <<>>
    THEN Return(H, None)
    ELSE Return([H EXCEPT !.q[k].content = Tail(@), !.q[k].flag = PopFront(@)],
                H.q[k].content[1])

\* self._content.pop(0): IndexError when _content is empty.
pop_head(H, k) ==
    IF H.q[k].content = <<>>
    THEN Raise(H, Error)
    ELSE Return([H EXCEPT !.q[k].content = Tail(@), !.q[k].flag = PopFront(@)],
                H.q[k].content[1])

\* BattleQueue.remove: prune, then pop the head.
BattleQueue_remove(H, k) == pop_head(clean_queue(H, k), k)

\* A remove that drops one ledger entry, whatever pruning has dropped.
ledger_pop_one(can_add, len_) == PopFront(can_add)

\* The ledger slice RestrictedBattleQueue.remove keeps: _can_add[start:].
ledger_after_remove(can_add, len_) ==
    SubSeq(can_add, (1 + (Len(can_add) - len_)) + 1, Len(can_add))

\* self._can_add = self._can_add[start:], on the pruned queue
realign(H, k) ==
    [H EXCEPT !.q[k].can_add = ledger_after_remove(@, Len(H.q[k].content))]

\* RestrictedBattleQueue.remove
RestrictedBattleQueue_remove(H, k) ==
    BattleQueue_remove(realign(clean_queue(H, k), k), k)

remove(H, k) ==
    IF H.q[k].restricted THEN RestrictedBattleQueue_remove(H, k)
    ELSE BattleQueue_remove(H, k)

\* return self._content == []
content_is_empty(H, k) == Return(H, H.q[k].content = <<>>)

\* BattleQueue.is_empty
is_empty(H, k) == content_is_empty(clean_queue(H, k), k)

\* The head of _content, else _p2.
head_or_p2(H, k) ==
    Return(H, IF H.q[k].content # <<>> THEN H.q[k].content[1] ELSE H.q[k].p2)

\* The head of _content, else _p1.
head_or_p1(H, k) ==
    Return(H, IF H.q[k].content # <<>> THEN H.q[k].content[1] ELSE H.q[k].p1)

\* A peek that does not prune.
peek_unpruned(H, k) == head_or_p1(H, k)

\* BattleQueue.peek: the head after pruning, else the first participant.
peek(H, k) == head_or_p1(clean_queue(H, k), k)

\* An is_over that looks at the first participant's HP only.
over_if_first_dead(e, k) ==
    IF e.ret THEN Return(e.h, TRUE)
    ELSE IF e.h.q[k].p1 = None THEN Raise(e.h, FALSE)
    ELSE Return(e.h, e.h.hp[e.h.q[k].p1] = 0)

\* BattleQueue.is_over once is_empty() has returned e; get_hp() of an
\* unbound participant (None) raises.
over_unless_empty(e, k) ==
    IF e.ret THEN Return(e.h, TRUE)
    ELSE IF e.h.q[k].p1 = None THEN Raise(e.h, FALSE)
    ELSE IF e.h.hp[e.h.q[k].p1] = 0 THEN Return(e.h, TRUE)
    ELSE IF e.h.q[k].p2 = None THEN Raise(e.h, FALSE)
    ELSE Return(e.h, e.h.hp[e.h.q[k].p2] = 0)

\* BattleQueue.is_over
is_over(H, k) == over_unless_empty(is_empty(H, k), k)

\* BattleQueue.get_winner once is_over() has returned o.
winner_when_over(o, k) ==
    IF o.raised THEN Raise(o.h, Error)
    ELSE IF ~o.ret THEN Return(o.h, None)
    ELSE IF o.h.q[k].p1 = None THEN Raise(o.h, Error)
    ELSE IF o.h.hp[o.h.q[k].p1] = 0 THEN Return(o.h, o.h.q[k].p2)
    ELSE IF o.h.q[k].p2 = None THEN Raise(o.h, Error)
    ELSE IF o.h.hp[o.h.q[k].p2] = 0 THEN Return(o.h, o.h.q[k].p1)
    ELSE Return(o.h, None)

\* BattleQueue.get_winner
get_winner(H, k) == winner_when_over(is_over(H, k), k)

\* ---------------------------------------------------- SkillDecisionTree
\* create_default_tree: the eight nodes (value, condition, priority, children).
DefaultTree ==
    [t9 |-> [value |-> "MageAttack",   condition |-> "f1", priority |-> 5,
             children |-> <<"t2", "t3", "t4">>],
     t2 |-> [value |-> "MageAttack",   condition |-> "f2", priority |-> 3,
             children |-> <<"t5">>],
     t3 |-> [value |-> "MageSpecial",  condition |-> "f3", priority |-> 2,
             children |-> <<"t6">>],
     t4 |-> [value |-> "RogueAttack",  condition |-> "f4", priority |-> 1,
             children |-> <<"t7">>],
     t5 |-> [value |-> "RogueSpecial", condition |-> "f5", priority |-> 4,
             children |-> <<"t8">>],
     t6 |-> [value |-> "RogueAttack",  condition |-> "f6", priority |-> 8,
             children |-> <<>>],
     t7 |-> [value |-> "RogueSpecial", condition |-> "f6", priority |-> 7,
             children |-> <<>>],
     t8 |-> [value |-> "RogueAttack",  condition |-> "f6", priority |-> 6,
             children |-> <<>>]]

\* f1 .. f6 of a2_skill_decision_tree.py
condition(H, f, caster, target) ==
    CASE f = "f1" -> H.hp[caster] > 50
      [] f = "f2" -> H.sp[caster] > 20
      [] f = "f3" -> H.sp[target] > 40
      [] f = "f4" -> H.hp[caster] > 90
      [] f = "f5" -> H.hp[target] < 30
      [] f = "f6" -> FALSE

\* SkillDecisionTree.pick_skill_helper: the nodes the descent stops at.
RECURSIVE pick_skill_helper(_, _, _, _)
RECURSIVE pick_skill_children(_, _, _, _)

\* sum([child.pick_skill_helper(caster, target) for child in children], [])
pick_skill_children(H, children, caster, target) ==
    IF children = <<>> THEN <<>>
    ELSE pick_skill_helper(H, Head(children), caster, target)
         \o pick_skill_children(H, Tail(children), caster, target)

pick_skill_helper(H, t, caster, target) ==
    IF    ~condition(H, DefaultTree[t].condition, caster, target)
       \/ DefaultTree[t].children = <<>>
    THEN <<t>>
    ELSE pick_skill_children(H, DefaultTree[t].children, caster, target)

\* The first node of lowest priority among those picked.
lowest_priority(picked) ==
    picked[CHOOSE i \in 1..Len(picked) :
              \A j \in 1..Len(picked) :
                 /\ DefaultTree[picked[i]].priority <= DefaultTree[picked[j]].priority
                 /\ (j < i => DefaultTree[picked[j]].priority
                              # DefaultTree[picked[i]].priority)]

\* SkillDecisionTree.pick_skill: the value of the node of lowest priority.
pick_skill(H, caster, target) ==
    DefaultTree[lowest_priority(pick_skill_helper(H, "t9", caster, target))].value

\* ------------------------------------------------------------- Skill.use
\* SorcererSpecial.use's loop: while not is_empty(): remove()
RECURSIVE drain(_, _)
RECURSIVE drain_unless_empty(_, _)

drain_unless_empty(e, k) ==
    IF e.ret THEN e.h ELSE drain(remove(e.h, k).h, k)

drain(H, k) == drain_unless_empty(is_empty(H, k), k)

\* The heal VampireAttack / VampireSpecial give the caster: the HP the
\* target lost.
heal(H, caster, target, former_hp) ==
    set_hp(H, caster, H.hp[caster] + (former_hp - H.hp[target]))

\* Skill.use of each Skill subclass; every add goes to caster.battle_queue.
use(H, skill, caster, target) ==
    LET k == H.bq[caster]
        D == deal_damage(H, skill, caster, target)
    IN  CASE skill \in {"MageAttack", "RogueAttack"} ->
               add(D, k, caster)
          [] skill = "MageSpecial" ->
               add(add(D, k, target), k, caster)
          [] skill = "RogueSpecial" ->
               add(add(D, k, caster), k, caster)
          [] skill = "VampireAttack" ->
               heal(add(D, k, caster), caster, target, H.hp[target])
          [] skill = "VampireSpecial" ->
               add(add(add(heal(D, caster, target, H.hp[target]),
                           k, caster), k, caster), k, target)
          [] skill = "SorcererAttack" ->
               set_hp(D, target, H.hp[target])
          [] skill = "SorcererSpecial" ->
               LET E == deal_damage(drain(H, k), skill, caster, target)
               IN  add(add(add(E, k, caster), k, target), k, caster)

\* Character.attack, and Sorcerer.attack which first uses the skill its
\* decision tree picks and restores its SP.
attack(H, c) ==
    IF H.cls[c] = "sorcerer"
    THEN use(set_sp(use(H, pick_skill(H, c, H.enemy[c]), c, H.enemy[c]),
                    c, H.sp[c]),
             "SorcererAttack", c, H.enemy[c])
    ELSE use(H, skills(H.cls[c], "A"), c, H.enemy[c])

\* Character.special_attack
special_attack(H, c) == use(H, skills(H.cls[c], "S"), c, H.enemy[c])

\* ------------------------------------------------------------------ copy
Max(S) == CHOOSE x \in S : \A y \in S : y <= x

\* A copy that hands back the character itself, bound to the new queue.
Character_alias(H, c, new_battle_queue) ==
    Return([H EXCEPT !.bq[c] = new_battle_queue], c)

\* The new character of Character.copy, as object n of the heap.
new_character(H, c, new_battle_queue, n) ==
    Return([H EXCEPT !.hp = @ @@ (n :> H.hp[c]),
                     !.sp = @ @@ (n :> H.sp[c]),
                     !.cls = @ @@ (n :> H.cls[c]),
                     !.enemy = @ @@ (n :> None),
                     !.bq = @ @@ (n :> new_battle_queue)],
           n)

\* Character.copy: a new character of the same class with the same HP and
\* SP, bound to new_battle_queue, its enemy not yet set.
Character_copy(H, c, new_battle_queue) ==
    new_character(H, c, new_battle_queue, Max(DOMAIN H.hp) + 1)

\* p1_copy.enemy = p2_copy; p2_copy.enemy = p1_copy
link_copies(nk, c1, c2) ==
    [h |-> [c2.h EXCEPT !.enemy[c1.ret] = c2.ret, !.enemy[c2.ret] = c1.ret],
     nk |-> nk, p1_copy |-> c1.ret, p2_copy |-> c2.ret]

\* p2_copy = self._p2.copy(new_battle_queue), after p1_copy
copy_p2(H, k, nk, c1) ==
    link_copies(nk, c1, Character_copy(c1.h, H.q[k].p2, nk))

\* p1_copy = self._p1.copy(new_battle_queue), the new queue being object nk
copy_p1(H, k, restricted, nk) ==
    copy_p2(H, k, nk,
            Character_copy([H EXCEPT !.q = @ @@ (nk :> NewQueue(restricted))],
                           H.q[k].p1, nk))

\* The head of both copy methods: the new queue and the two clones, each
\* the other's enemy.
copy_participants(H, k, restricted) ==
    copy_p1(H, k, restricted, Max(DOMAIN H.q) + 1)

\* A clone that is the first participant's copy whatever the entry is.
clone_as_first(H, k, c, p1_copy, p2_copy) == p1_copy

\* The clone standing for an entry: p1's when the entry is _p1, else p2's.
clone_of(H, k, character, p1_copy, p2_copy) ==
    IF character = H.q[k].p1 THEN p1_copy ELSE p2_copy

\* BattleQueue.copy's loop: add the clone of every entry of _content.
RECURSIVE replay(_, _, _, _, _, _)
replay(H, k, nk, i, p1_copy, p2_copy) ==
    IF i > Len(H.q[k].content) THEN H
    ELSE replay(add(H, nk, clone_of(H, k, H.q[k].content[i], p1_copy, p2_copy)),
                k, nk, i + 1, p1_copy, p2_copy)

\* if not new_battle_queue.is_empty(): new_battle_queue.remove()
remove_unless_empty(e, nk) ==
    IF ~e.ret THEN remove(e.h, nk).h ELSE e.h

\* BattleQueue.copy once the participants are copied: add p1_copy, remove
\* it again, replay _content.
copy_content(k, P) ==
    Return(replay(remove_unless_empty(is_empty(add(P.h, P.nk, P.p1_copy), P.nk),
                                      P.nk),
                  k, P.nk, 1, P.p1_copy, P.p2_copy),
           P.nk)

\* BattleQueue.copy
BattleQueue_copy(H, k) ==
    IF H.q[k].p1 = None \/ H.q[k].p2 = None THEN Raise(H, Error)
    ELSE copy_content(k, copy_participants(H, k, FALSE))

\* RestrictedBattleQueue.copy once the participants are copied: _p1, _p2,
\* our_list and our_can_add are assigned to the new queue.
copy_ledger(H, k, P) ==
    Return([P.h EXCEPT !.q[P.nk].p1 = P.p1_copy,
                       !.q[P.nk].p2 = P.p2_copy,
                       !.q[P.nk].content =
                           [i \in 1..Len(H.q[k].content) |->
                              clone_of(H, k, H.q[k].content[i],
                                       P.p1_copy, P.p2_copy)],
                       !.q[P.nk].can_add = H.q[k].can_add,
                       !.q[P.nk].flag = H.q[k].flag],
           P.nk)

\* RestrictedBattleQueue.copy
RestrictedBattleQueue_copy(H, k) ==
    IF H.q[k].p1 = None \/ H.q[k].p2 = None THEN Raise(H, Error)
    ELSE copy_ledger(H, k, copy_participants(H, k, TRUE))

\* A copy that returns the queue itself when a participant is unbound.
copy_or_self(H, k) ==
    IF H.q[k].p1 = None \/ H.q[k].p2 = None THEN Return(H, k)
    ELSE IF H.q[k].restricted THEN RestrictedBattleQueue_copy(H, k)
    ELSE BattleQueue_copy(H, k)

copy(H, k) ==
    IF H.q[k].restricted THEN RestrictedBattleQueue_copy(H, k)
    ELSE BattleQueue_copy(H, k)


\* --------------------------------------------------------------- minimax
\* The object graph a copy() returned, on a heap of its own: queue k becomes
\* queue 1, its _p1 character 1 and its _p2 character 2.
isolate(H, k) ==
    [hp    |-> (1 :> H.hp[H.q[k].p1] @@ 2 :> H.hp[H.q[k].p2]),
     sp    |-> (1 :> H.sp[H.q[k].p1] @@ 2 :> H.sp[H.q[k].p2]),
     cls   |-> (1 :> H.cls[H.q[k].p1] @@ 2 :> H.cls[H.q[k].p2]),
     enemy |-> (1 :> 2 @@ 2 :> 1),
     bq    |-> (1 :> 1 @@ 2 :> 1),
     q     |-> (1 :> [H.q[k] EXCEPT
                        !.content = [i \in 1..Len(H.q[k].content) |->
                                       IF H.q[k].content[i] = H.q[k].p1
                                       THEN 1 ELSE 2],
                        !.p1 = 1, !.p2 = 2])]

\* peek().attack() or peek().special_attack(), p being what peek() returned
make_move(p, action) ==
    IF action = "A" THEN attack(p.h, p.ret) ELSE special_attack(p.h, p.ret)

\* if peek().get_available_actions() != []: remove(), n being what that
\* peek() returned
advance(n, k) ==
    IF get_available_actions(n.h, n.ret) # <<>>
    THEN remove(n.h, k)
    ELSE Return(n.h, None)

\* The step every engine makes on a copy: peek() makes its move, and when
\* the peek() that follows has an action, remove().
move(H, k, action) == advance(peek(make_move(peek(H, k), action), k), k)

\* A score read from the winner's SP.
winner_score_in_sp(w, p) ==
    Return(p.h, IF w.ret = p.ret THEN p.h.sp[p.ret] ELSE -1 * p.h.sp[w.ret])

\* A score that is the winner's HP whoever peek() is.
winner_score_unsigned(w, p) == Return(p.h, p.h.hp[w.ret])

\* The score of a queue that is over, w being what get_winner() returned
\* and p what peek() returned.
winner_score(w, p) ==
    Return(p.h, IF w.ret = p.ret THEN p.h.hp[p.ret] ELSE -1 * p.h.hp[w.ret])

score_winner(w, k) ==
    IF w.raised THEN Raise(w.h, Error)
    ELSE IF w.ret # None THEN winner_score(w, peek(w.h, k))
    ELSE Return(w.h, 0)

\* The score of a queue that is over: the HP of the winner when it is
\* peek(), minus the winner's HP when it is not, 0 without a winner.
terminal_score(H, k) == score_winner(get_winner(H, k), k)

\* The values get_state_score gives copy1_score and copy2_score before a
\* move is tried: -42423232424 and -64545353434 in the source, kept here
\* without their last two digits (TLC's integers have 32 bits).
score_copy1_unset == -424232324
score_copy2_unset == -645453534

\* score if player == current_player else -1 * score, s being what the
\* call that scores the copy returned
signed_score(player, current_player, s) ==
    IF s.raised THEN Raise(s.h, Error)
    ELSE Return(s.h, IF player.ret = current_player.ret THEN s.ret
                     ELSE -1 * s.ret)

\* get_state_score
RECURSIVE get_state_score(_, _)

\* What get_state_score and RecursiveMinimax.select_attack do with a copy:
\* player = copy.peek(); when the action is valid the move is made,
\* current_player = copy.peek(), and the copy is scored by get_state_score.
recursive_scored(player, current_player) ==
    signed_score(player, current_player, get_state_score(current_player.h, 1))

recursive_moved(player, m) ==
    IF m.raised THEN Raise(m.h, Error)
    ELSE recursive_scored(player, peek(m.h, 1))

recursive_tried(player, action, unset) ==
    IF ~is_valid_action(player.h, player.ret, action)
    THEN Return(player.h, unset)
    ELSE recursive_moved(player, move(player.h, 1, action))

recursive_explore(c, action, unset) ==
    recursive_tried(peek(isolate(c.h, c.ret), 1), action, unset)

\* return max(copy2_score, copy1_score)
max_score(H, copy1_score, copy2_score) ==
    IF copy1_score.raised \/ copy2_score.raised
    THEN Raise(H, Error)
    ELSE Return(H, Max({copy2_score.ret, copy1_score.ret}))

\* get_state_score's else branch, c being what battle_queue.copy() returned
score_copies(H, c) ==
    IF c.raised THEN Raise(H, Error)
    ELSE max_score(H, recursive_explore(c, "S", score_copy1_unset),
                      recursive_explore(c, "A", score_copy2_unset))

\* get_state_score, o being what battle_queue.is_over() returned
score_unless_over(o, k) ==
    IF o.raised THEN Raise(o.h, Error)
    ELSE IF o.ret THEN terminal_score(o.h, k)
    ELSE score_copies(o.h, copy(o.h, k))

get_state_score(H, k) == score_unless_over(is_over(H, k), k)

\* Tree.__init__: no children, no score (an empty sequence; a score is a
\* sequence of one integer).
Tree(state) == [state |-> state, children |-> <<>>, score |-> <<>>]

\* The root of the tree iterative_get_score builds; a child is named by its
\* parent and its index among the parent's children.
root == <<>>

\* Tree(removed.state.copy()) with its move made, c being what copy()
\* returned
moved_copy(c, action) == move(isolate(c.h, c.ret), 1, action)

\* The special attack alone, when valid.
valid_specials(p) ==
    SelectSeq(<<"S">>, LAMBDA a : is_valid_action(p.h, p.ret, a))

\* The valid ones of 'A', 'S' for what removed.state.peek() returned.
valid_moves(p) ==
    SelectSeq(<<"A", "S">>, LAMBDA a : is_valid_action(p.h, p.ret, a))

\* The children removed_helper makes, one for each valid move.
moved_copies(p, acts) ==
    [i \in 1..Len(acts) |-> moved_copy(copy(p.h, 1), acts[i])]

\* removed.children = [...], the children entering the tree
with_children(T, removed, p, made) ==
    [tree   |-> [n \in DOMAIN T \cup {Append(removed, i) : i \in 1..Len(made)} |->
                   IF n = removed
                   THEN [T[n] EXCEPT !.state = p.h,
                                     !.children = [i \in 1..Len(made) |->
                                                     Append(removed, i)]]
                   ELSE IF n \in DOMAIN T THEN T[n]
                   ELSE Tree(made[n[Len(n)]].h)],
     raised |-> \E i \in 1..Len(made) : made[i].raised]

removed_helper_at(T, removed, p) ==
    with_children(T, removed, p, moved_copies(p, valid_moves(p)))

\* removed_helper: the children of node removed of tree T, one for each
\* valid action of 'A', 'S', each a copy moved on.
removed_helper(T, removed) ==
    removed_helper_at(T, removed, peek(T[removed].state, 1))

\* removed.score = the score of a state that is over
score_node(T, removed, rest, over) ==
    [tree   |-> [T EXCEPT ![removed].state = over.h,
                          ![removed].score = <<over.ret>>],
     stack  |-> rest,
     raised |-> over.raised]

\* The children pushed first and the node on top of them.
push_parent_last(removed, rest, helped) ==
    [tree   |-> helped.tree,
     stack  |-> rest \o helped.tree[removed].children \o <<removed>>,
     raised |-> helped.raised]

\* stack.append(removed), then every child
push_children(removed, rest, helped) ==
    [tree   |-> helped.tree,
     stack  |-> rest \o <<removed>> \o helped.tree[removed].children,
     raised |-> helped.raised]

\* child.score if type(child.state.peek()) == type(player) else
\* -1 * child.score, n being what child.state.peek() returned
child_score(player, n, score) ==
    IF n.h.cls[n.ret] = player.h.cls[player.ret] THEN score ELSE -1 * score

\* removed.score = max([...])
fold_children(T, removed, rest, player) ==
    [tree   |-> [T EXCEPT
                   ![removed].state = player.h,
                   ![removed].score =
                      <<Max({child_score(player,
                                         peek(T[T[removed].children[i]].state, 1),
                                         T[T[removed].children[i]].score[1]) :
                               i \in 1..Len(T[removed].children)})>>],
     stack  |-> rest,
     raised |-> FALSE]

\* The body of iterative_get_score's loop, o being what
\* removed.state.is_over() returned.
loop_body(T, removed, rest, o) ==
    IF o.ret
    THEN score_node(T, removed, rest, terminal_score(o.h, 1))
    ELSE IF T[removed].children = <<>>
    THEN push_children(removed, rest,
                       removed_helper([T EXCEPT ![removed].state = o.h], removed))
    ELSE fold_children(T, removed, rest, peek(o.h, 1))

\* One turn of iterative_get_score's loop on tree T and stack S:
\* removed = stack.pop()
iterate(T, S) ==
    loop_body(T, S[Len(S)], SubSeq(S, 1, Len(S) - 1),
              is_over(T[S[Len(S)]].state, 1))

\* iterative_get_score's loop: while stack
RECURSIVE while_stack(_, _)
RECURSIVE while_unraised(_)

while_unraised(n) ==
    IF n.raised THEN [tree |-> n.tree, raised |-> TRUE]
    ELSE while_stack(n.tree, n.stack)

while_stack(T, S) ==
    IF S = <<>> THEN [tree |-> T, raised |-> FALSE]
    ELSE while_unraised(iterate(T, S))

\* return state.score
root_score(H, r) ==
    IF r.raised THEN Raise(H, Error)
    ELSE Return(H, r.tree[root].score[1])

\* state = Tree(battle_queue.copy()); stack = [state]; the loop
score_tree(H, c) ==
    IF c.raised THEN Raise(H, Error)
    ELSE root_score(H, while_stack(root :> Tree(isolate(c.h, c.ret)), <<root>>))

\* iterative_get_score
iterative_get_score(H, k) == score_tree(H, copy(H, k))

\* The values both select_attack give copy1_score and copy2_score before a
\* move is tried.
copy1_score_unset == -5445543
copy2_score_unset == -6476444

\* A return with the two labels exchanged.
best_label_exchanged(best_score, copy1_score, copy2_score) ==
    IF best_score = copy1_score THEN "S"
    ELSE IF best_score = copy2_score THEN "A"
    ELSE "X"

\* return 'A' if best_score == copy1_score else 'S' if best_score ==
\* copy2_score else 'X'
best_label(best_score, copy1_score, copy2_score) ==
    IF best_score = copy1_score THEN "A"
    ELSE IF best_score = copy2_score THEN "S"
    ELSE "X"

select_label(H, copy1_score, copy2_score) ==
    IF copy1_score.raised \/ copy2_score.raised THEN Raise(H, "")
    ELSE Return(H, best_label(Max({copy2_score.ret, copy1_score.ret}),
                              copy1_score.ret, copy2_score.ret))

\* RecursiveMinimax.select_attack, c being what battle_queue.copy() returned
recursive_select(H, c) ==
    IF c.raised THEN Raise(H, "")
    ELSE select_label(H, recursive_explore(c, "A", copy1_score_unset),
                         recursive_explore(c, "S", copy2_score_unset))

\* RecursiveMinimax.select_attack
RecursiveMinimax_select_attack(H, k) == recursive_select(H, copy(H, k))

\* What IterativeMinimax.select_attack does with a copy: as the recursive
\* engine, the copy being scored by iterative_get_score.
iterative_scored(player, current_player) ==
    signed_score(player, current_player,
                 iterative_get_score(current_player.h, 1))

iterative_moved(player, m) ==
    IF m.raised THEN Raise(m.h, Error)
    ELSE iterative_scored(player, peek(m.h, 1))

iterative_tried(player, action, unset) ==
    IF ~is_valid_action(player.h, player.ret, action)
    THEN Return(player.h, unset)
    ELSE iterative_moved(player, move(player.h, 1, action))

iterative_explore(c, action, unset) ==
    iterative_tried(peek(isolate(c.h, c.ret), 1), action, unset)

\* IterativeMinimax.select_attack, c being what battle_queue.copy() returned
iterative_select(H, c) ==
    IF c.raised THEN Raise(H, "")
    ELSE select_label(H, iterative_explore(c, "A", copy1_score_unset),
                         iterative_explore(c, "S", copy2_score_unset))

\* IterativeMinimax.select_attack
IterativeMinimax_select_attack(H, k) == iterative_select(H, copy(H, k))


\* ------------------------------------------------- the queue under its API
\* Two characters, each the other's enemy, built on one empty queue; their
\* classes, HP and SP (set_hp / set_sp) are the inputs of a run.  A
\* character starts with too little SP for any skill, or with exactly the
\* SP of its special attack (a mage: of its attack).
ClassPairs == {<<"rogue", "mage">>, <<"vampire", "sorcerer">>}
HpChoices == {<<8, 8>>}
SpChoices(cls) ==
    {2, get_sp_cost(skills(cls, IF cls = "mage" THEN "A" ELSE "S"))}

NewHeap(restricted, classes, hps, sps) ==
    [hp    |-> (1 :> hps[1] @@ 2 :> hps[2]),
     sp    |-> (1 :> sps[1] @@ 2 :> sps[2]),
     cls   |-> (1 :> classes[1] @@ 2 :> classes[2]),
     enemy |-> (1 :> 2 @@ 2 :> 1),
     bq    |-> (1 :> 1 @@ 2 :> 1),
     q     |-> (1 :> NewQueue(restricted))]

\* The last call made: the operation, the queue, the character passed (or
\* acting), the character returned (None, Error when it raised) and the
\* boolean returned (for remove: whether the ledger was the longer).
Op(op, k, c, ret, b) == [op |-> op, q |-> k, c |-> c, ret |-> ret, b |-> b]

Init ==
    /\ \E restricted \in BOOLEAN, classes \in ClassPairs,
          hps \in HpChoices :
          \E sps \in SpChoices(classes[1]) \X SpChoices(classes[2]) :
             heap = NewHeap(restricted, classes, hps, sps)
    /\ lastOp = Op("init", None, None, None, FALSE)
    /\ calls = 0
    /\ tree = <<>>
    /\ stack = <<>>

Queues == DOMAIN heap.q
CharactersOf(k) == {c \in DOMAIN heap.bq : heap.bq[c] = k}

\* The model's cap on the length of every queue's _content and _can_add.
Bounded(H) ==
    \A k \in DOMAIN H.q :
       /\ Len(H.q[k].content) <= MaxLen
       /\ Len(H.q[k].can_add) <= Len(H.q[k].content) + MaxStale

\* calls counts the operations made once a copy() of the queue exists.
Counted ==
    /\ calls < MaxCopyOps
    /\ calls' = IF Cardinality(DOMAIN heap.q) > 1 THEN calls + 1 ELSE calls

\* bq.add(c)
Add(k, c) ==
    LET H == add(heap, k, c) IN
    /\ Bounded(H)
    /\ heap' = H
    /\ lastOp' = Op("add", k, c, None, FALSE)
    /\ Counted
    /\ UNCHANGED <<tree, stack>>

\* bq.remove(): the character returned, or the error raised; b records
\* whether _can_add was longer than _content when it was called.
Remove(k) ==
    LET r == remove(heap, k) IN
    /\ heap' = r.h
    /\ lastOp' = Op("remove", k, None, r.ret,
                    Len(heap.q[k].can_add) > Len(heap.q[k].content))
    /\ Counted
    /\ UNCHANGED <<tree, stack>>

\* bq.peek()
Peek(k) ==
    LET r == peek(heap, k) IN
    /\ heap' = r.h
    /\ lastOp' = Op("peek", k, None, r.ret, FALSE)
    /\ Counted
    /\ UNCHANGED <<tree, stack>>

\* bq.is_empty()
IsEmpty(k) ==
    LET r == is_empty(heap, k) IN
    /\ heap' = r.h
    /\ lastOp' = Op("is_empty", k, None, None, r.ret)
    /\ Counted
    /\ UNCHANGED <<tree, stack>>

\* bq.is_over()
IsOver(k) ==
    LET r == is_over(heap, k) IN
    /\ heap' = r.h
    /\ lastOp' = Op("is_over", k, None, IF r.raised THEN Error ELSE None, r.ret)
    /\ Counted
    /\ UNCHANGED <<tree, stack>>

\* bq.get_winner()
GetWinner(k) ==
    LET r == get_winner(heap, k) IN
    /\ heap' = r.h
    /\ lastOp' = Op("get_winner", k, None, r.ret, FALSE)
    /\ Counted
    /\ UNCHANGED <<tree, stack>>

\* bq.peek().attack(), for a character that can attack
Attack(k) ==
    LET p == peek(heap, k) IN
    /\ p.ret # None
    /\ is_valid_action(p.h, p.ret, "A")
    /\ LET H == attack(p.h, p.ret) IN
       /\ Bounded(H)
       /\ heap' = H
    /\ lastOp' = Op("attack", k, p.ret, None, FALSE)
    /\ Counted
    /\ UNCHANGED <<tree, stack>>

\* bq.peek().special_attack(), for a character that can
SpecialAttack(k) ==
    LET p == peek(heap, k) IN
    /\ p.ret # None
    /\ is_valid_action(p.h, p.ret, "S")
    /\ LET H == special_attack(p.h, p.ret) IN
       /\ Bounded(H)
       /\ heap' = H
    /\ lastOp' = Op("special_attack", k, p.ret, None, FALSE)
    /\ Counted
    /\ UNCHANGED <<tree, stack>>

Next ==
    \/ \E k \in Queues : \E c \in CharactersOf(k) : Add(k, c)
    \/ \E k \in Queues : Remove(k)
    \/ \E k \in Queues : Peek(k)
    \/ \E k \in Queues : IsEmpty(k)
    \/ \E k \in Queues : IsOver(k)
    \/ \E k \in Queues : GetWinner(k)
    \/ \E k \in Queues : Attack(k)
    \/ \E k \in Queues : SpecialAttack(k)

Spec == Init /\ [][Next]_vars

\* The queue driven through its own methods only.
NextQueue ==
    \/ \E k \in Queues : \E c \in CharactersOf(k) : Add(k, c)
    \/ \E k \in Queues : Remove(k)
    \/ \E k \in Queues : Peek(k)
    \/ \E k \in Queues : IsEmpty(k)
    \/ \E k \in Queues : IsOver(k)
    \/ \E k \in Queues : GetWinner(k)

SpecQueue == Init /\ [][NextQueue]_vars

\* ------------------------------------------------ RestrictedBattleQueue
Restricted == {k \in Queues : heap.q[k].restricted}

\* The entries of c in the sequence of queue k that were flagged eligible.
eligible_occurrences(k, c) ==
    Cardinality({i \in 1..Len(heap.q[k].content) :
                    heap.q[k].content[i] = c /\ heap.q[k].flag[i] = "yes"})

\* C2: in every state of a RestrictedBattleQueue reached by add, remove,
\* peek, is_empty, is_over and get_winner, _can_add is as long as _content
\* and _can_add[i] is the flag _content[i] was given.
\* Refuted: peek() prunes _content and leaves _can_add as it was.
C2_LedgerAligned ==
    \A k \in Restricted : heap.q[k].can_add = heap.q[k].flag

\* C3: an add(c) made while the sequence is non-empty and _can_add[0] is
\* 'no' changes nothing of the queue (sequence, ledger, _p1, _p2), for any
\* c and however often it is repeated.
C3_RejectedAddChangesNothing ==
    [][\A k \in Restricted :
          (/\ lastOp'.op = "add"
           /\ lastOp'.q = k
           /\ heap.q[k].content # <<>>
           /\ heap.q[k].can_add[1] = "no")
          => heap'.q[k] = heap.q[k]]_vars

\* An add of a character that has no entry in the sequence was made on a
\* non-empty queue whose ledger head is 'no'.
C3_Witness ==
    \E k \in Restricted :
       /\ lastOp.op = "add"
       /\ lastOp.q = k
       /\ heap.q[k].content # <<>>
       /\ heap.q[k].can_add[1] = "no"
       /\ \A i \in 1..Len(heap.q[k].content) : heap.q[k].content[i] # lastOp.c

\* C4: in every state of a RestrictedBattleQueue reached by add, remove,
\* peek, is_empty and is_over, no character has more than two entries
\* flagged eligible.
\* Refuted: once pruning has shifted _content against _can_add, add counts
\* the flags of other entries and hands out a third 'yes'.
C4_AtMostTwoEligible ==
    \A k \in Restricted : \A c \in CharactersOf(k) : eligible_occurrences(k, c) <= 2

\* C8: a RestrictedBattleQueue.remove() that returns a character leaves
\* _can_add as long as _content, entry for entry the flags of the entries
\* that remain, also when earlier pruning had left _can_add longer.
C8_RemoveRealigns ==
    \A k \in Restricted :
       (lastOp.op = "remove" /\ lastOp.q = k /\ lastOp.ret # Error)
       => heap.q[k].can_add = heap.q[k].flag

\* remove() returned a character from a queue whose ledger was longer than
\* its sequence when the call was made, and entries remain.
C8_Witness ==
    \E k \in Restricted :
       /\ lastOp.op = "remove"
       /\ lastOp.q = k
       /\ lastOp.ret # Error
       /\ lastOp.b
       /\ heap.q[k].content # <<>>

\* C9: after any sequence of add and remove calls, the empty one included,
\* peek() returns a character, never None.
\* Refuted: on a queue nothing was ever added to, peek() returns _p1 = None.
C9_PeekNeverNone ==
    lastOp.op = "peek" => lastOp.ret # None

\* C10: when the head of the sequence adds itself while _can_add[0] is 'yes'
\* and two of its entries are flagged eligible, the sequence grows by that
\* one entry and the entry is flagged 'no'.
\* Refuted: with _can_add shifted by pruning (C2) the count add makes is not
\* two, and the new entry is flagged 'yes'.
C10_ThirdEntryIneligible ==
    [][\A k \in Restricted :
          (/\ lastOp'.op = "add"
           /\ lastOp'.q = k
           /\ heap.q[k].content # <<>>
           /\ lastOp'.c = heap.q[k].content[1]
           /\ heap.q[k].can_add[1] = "yes"
           /\ eligible_occurrences(k, lastOp'.c) = 2)
          => /\ heap'.q[k].content = Append(heap.q[k].content, lastOp'.c)
             /\ heap'.q[k].flag = Append(heap.q[k].flag, "no")
             /\ heap'.q[k].can_add = Append(heap.q[k].can_add, "no")]_vars

\* ------------------------------------------------------------------ copy
\* The queues a run starts from are built by add: every order of at most
\* n calls over the two characters.
Orders(n) == UNION {[1..m -> {1, 2}] : m \in 0..n}

RECURSIVE build(_, _, _)
build(H, order, i) ==
    IF i > Len(order) THEN H
    ELSE build(add(H, 1, order[i]), order, i + 1)

InitCopy ==
    /\ \E restricted \in BOOLEAN, classes \in ClassPairs, hps \in HpChoices,
          order \in Orders(MaxSearchLen) :
          \E sps \in SpChoices(classes[1]) \X SpChoices(classes[2]) :
             heap = build(NewHeap(restricted, classes, hps, sps), order, 1)
    /\ lastOp = Op("init", None, None, None, FALSE)
    /\ calls = 0
    /\ tree = <<>>
    /\ stack = <<>>

Copied == Cardinality(Queues) > 1

\* bq.copy(): the queue returned, or the error raised
Copy(k) ==
    LET r == copy(heap, k) IN
    /\ ~Copied
    /\ heap' = r.h
    /\ lastOp' = Op("copy", k, None, r.ret, r.raised)
    /\ UNCHANGED <<calls, tree, stack>>

\* The values set_hp and set_sp are called with.
SetChoices == {0, 20}

\* c.set_hp(v)
SetHp(c, v) ==
    /\ heap' = set_hp(heap, c, v)
    /\ lastOp' = Op("set_hp", heap.bq[c], c, None, FALSE)
    /\ Counted
    /\ UNCHANGED <<tree, stack>>

\* c.set_sp(v)
SetSp(c, v) ==
    /\ heap' = set_sp(heap, c, v)
    /\ lastOp' = Op("set_sp", heap.bq[c], c, None, FALSE)
    /\ Counted
    /\ UNCHANGED <<tree, stack>>

\* A copy is taken of the queue, then the queue, the copy and their
\* characters are operated on in any order.
NextCopy ==
    \/ \E k \in Queues : Copy(k)
    \/ \E k \in Queues : \E c \in CharactersOf(k) : Copied /\ Add(k, c)
    \/ \E k \in Queues : Copied /\ Remove(k)
    \/ \E k \in Queues : Copied /\ Peek(k)
    \/ \E k \in Queues : Copied /\ Attack(k)
    \/ \E k \in Queues : Copied /\ SpecialAttack(k)
    \/ \E c \in DOMAIN heap.hp : \E v \in SetChoices : Copied /\ SetHp(c, v)
    \/ \E c \in DOMAIN heap.sp : \E v \in SetChoices : Copied /\ SetSp(c, v)

SpecCopy == InitCopy /\ [][NextCopy]_vars

\* What queue k reaches: the queue object and, of its participants and
\* entries, every attribute.
members(H, k) ==
    ({H.q[k].p1, H.q[k].p2} \cup {H.q[k].content[i] : i \in 1..Len(H.q[k].content)})
    \ {None}

graph(H, k) ==
    [q     |-> H.q[k],
     chars |-> [c \in members(H, k) |->
                  [hp |-> H.hp[c], sp |-> H.sp[c], cls |-> H.cls[c],
                   enemy |-> H.enemy[c], bq |-> H.bq[c]]]]

SearchPairs == {<<"rogue", "rogue">>, <<"rogue", "mage">>}
SearchHp == {1, 8}
SearchSp == {0, 3, 10}

InitSearch ==
    /\ \E restricted \in BOOLEAN, classes \in SearchPairs,
          hps \in SearchHp \X SearchHp, sps \in SearchSp \X SearchSp,
          order \in Orders(MaxSearchLen) :
          heap = build(NewHeap(restricted, classes, hps, sps), order, 1)
    /\ lastOp = Op("init", None, None, None, FALSE)
    /\ calls = 0
    /\ tree = <<>>
    /\ stack = <<>>

\* The call returns r; the queue is left as the call left it.
Returned(op, k, r) ==
    /\ heap' = r.h
    /\ lastOp' = Op(op, k, None, IF r.raised THEN None ELSE r.ret, r.raised)
    /\ UNCHANGED <<calls, tree, stack>>

\* get_state_score(bq)
GetStateScore(k) ==
    /\ stack = <<>>
    /\ Returned("get_state_score", k, get_state_score(heap, k))

\* state = Tree(battle_queue.copy()); stack = [state]
Planted(k, c) ==
    /\ tree' = IF c.raised THEN <<>> ELSE root :> Tree(isolate(c.h, c.ret))
    /\ stack' = IF c.raised THEN <<>> ELSE <<root>>
    /\ lastOp' = Op("iterative_get_score", k, None, None, c.raised)
    /\ UNCHANGED <<heap, calls>>

\* iterative_get_score(bq), up to its loop: the root of the tree is a copy
\* of bq, and the stack holds it.
IterativeGetScore(k) ==
    /\ stack = <<>>
    /\ Planted(k, copy(heap, k))

\* The turn of the loop leaves tree and stack n; when it empties the stack
\* iterative_get_score returns state.score, and when it raises the call ends.
Turned(n) ==
    /\ tree' = n.tree
    /\ stack' = IF n.raised THEN <<>> ELSE n.stack
    /\ lastOp' = [lastOp EXCEPT
                    !.b = n.raised,
                    !.ret = IF ~n.raised /\ n.stack = <<>>
                            THEN n.tree[root].score[1] ELSE None]
    /\ UNCHANGED <<heap, calls>>

\* The node the loop pops next.
Top == tree[stack[Len(stack)]]

\* The three branches of the loop's body.
ScoreTerminal ==
    /\ stack # <<>>
    /\ is_over(Top.state, 1).ret
    /\ Turned(iterate(tree, stack))

Expand ==
    /\ stack # <<>>
    /\ ~is_over(Top.state, 1).ret
    /\ Top.children = <<>>
    /\ Turned(iterate(tree, stack))

Fold ==
    /\ stack # <<>>
    /\ ~is_over(Top.state, 1).ret
    /\ Top.children # <<>>
    /\ Turned(iterate(tree, stack))

\* select_attack returns r; it works on copies and leaves the queue alone.
Selected(op, k, r) ==
    /\ lastOp' = Op(op, k, None, r.ret, r.raised)
    /\ UNCHANGED <<heap, calls, tree, stack>>

\* RecursiveMinimax(bq).select_attack()
RecursiveSelectAttack(k) ==
    /\ stack = <<>>
    /\ Selected("RecursiveMinimax.select_attack", k,
                RecursiveMinimax_select_attack(heap, k))

\* IterativeMinimax(bq).select_attack()
IterativeSelectAttack(k) ==
    /\ stack = <<>>
    /\ Selected("IterativeMinimax.select_attack", k,
                IterativeMinimax_select_attack(heap, k))

NextSearch ==
    \/ \E k \in Queues : GetStateScore(k)
    \/ \E k \in Queues : IterativeGetScore(k)
    \/ ScoreTerminal
    \/ Expand
    \/ Fold
    \/ \E k \in Queues : RecursiveSelectAttack(k)
    \/ \E k \in Queues : IterativeSelectAttack(k)

SpecSearch == InitSearch /\ [][NextSearch]_vars

\* C1: for every queue with two participants, duels of two characters of
\* one class included, iterative_get_score returns what get_state_score
\* returns.
\* Refuted: the loop folds a child's score by the class of its peek(), not
\* by which character it is, so between two characters of one class it
\* never negates.
C1_ScoresAgree ==
    (/\ lastOp.op = "iterative_get_score"
     /\ stack = <<>>
     /\ heap.q[lastOp.q].p1 # None
     /\ heap.q[lastOp.q].p2 # None)
    => LET r == get_state_score(heap, lastOp.q)
       IN  /\ r.raised = lastOp.b
           /\ ~r.raised => r.ret = lastOp.ret

\* C5: RecursiveMinimax.select_attack and IterativeMinimax.select_attack
\* return the same label on the same queue.
\* Refuted: the scores they compare differ (C1).
C5_LabelsAgree ==
    lastOp.op = "RecursiveMinimax.select_attack"
    => LET i == IterativeMinimax_select_attack(heap, lastOp.q)
       IN  i.raised = lastOp.b /\ i.ret = lastOp.ret

\* C6: when neither 'A' nor 'S' is valid for peek(), both select_attack
\* return 'X'.
\* Refuted: both scores keep their first values, the greater of which is
\* copy1_score, and the label returned is 'A'.
C6_NoMoveGivesX ==
    (/\ lastOp.op \in {"RecursiveMinimax.select_attack",
                       "IterativeMinimax.select_attack"}
     /\ ~lastOp.b
     /\ LET p == peek(heap, lastOp.q)
        IN  get_available_actions(p.h, p.ret) = <<>>)
    => lastOp.ret = "X"

\* ------------------------------------------ the rules of a restricted add
\* The rule an add(c) on queue k falls under when the five rules are read
\* in order on the sequence, the head of the ledger and the flags the
\* entries of the sequence were given.
ordered_rule(k, c) ==
    IF heap.q[k].content = <<>> THEN 1
    ELSE IF heap.q[k].can_add[1] = "no" THEN 2
    ELSE IF \A i \in 1..Len(heap.q[k].content) : heap.q[k].content[i] # c THEN 3
    ELSE IF c = heap.q[k].content[1] /\ eligible_occurrences(k, c) < 2 THEN 4
    ELSE 5

\* C11: an add(c) on a RestrictedBattleQueue does what the first rule that
\* matches says: rule 2 changes nothing of sequence and ledger, rules 1, 3
\* and 4 append c flagged 'yes', rule 5 appends c flagged 'no'.
\* Refuted: with _can_add shifted by pruning (C2) add counts three 'yes'
\* for a head that has two, rule 4's test added_yes_count != 2 holds, and
\* the entry rule 5 should flag 'no' is flagged 'yes'.
C11_AddFollowsRules ==
    [][\A k \in Restricted :
          (lastOp'.op = "add" /\ lastOp'.q = k)
          => IF ordered_rule(k, lastOp'.c) = 2
             THEN /\ heap'.q[k].content = heap.q[k].content
                  /\ heap'.q[k].can_add = heap.q[k].can_add
             ELSE /\ heap'.q[k].content = Append(heap.q[k].content, lastOp'.c)
                  /\ heap'.q[k].flag =
                        Append(heap.q[k].flag,
                               IF ordered_rule(k, lastOp'.c) = 5
                               THEN "no" ELSE "yes")]_vars

\* ------------------------------------------------------- terminal scores
\* The engines are given queues built by add for two characters whose HP
\* may be 0 and whose SP may be too low for any move.
TerminalHp == {0, 8}
TerminalSp == {0, 3}

InitTerminal ==
    /\ \E restricted \in BOOLEAN, classes \in SearchPairs,
          hps \in TerminalHp \X TerminalHp, sps \in TerminalSp \X TerminalSp,
          order \in Orders(MaxSearchLen) :
          heap = build(NewHeap(restricted, classes, hps, sps), order, 1)
    /\ lastOp = Op("init", None, None, None, FALSE)
    /\ calls = 0
    /\ tree = <<>>
    /\ stack = <<>>

NextTerminal ==
    \/ \E k \in Queues : GetStateScore(k)
    \/ \E k \in Queues : IterativeGetScore(k)
    \/ ScoreTerminal
    \/ Expand
    \/ Fold

SpecTerminal == InitTerminal /\ [][NextTerminal]_vars

\* Both participants of queue k are bound.
Bound(k) == heap.q[k].p1 # None /\ heap.q[k].p2 # None

\* Queue k is terminal: its sequence is empty once the leading entries
\* without an action are pruned, or a participant has HP 0.
Terminal(k) ==
    \/ clean_queue(heap, k).q[k].content = <<>>
    \/ heap.hp[heap.q[k].p1] = 0
    \/ heap.hp[heap.q[k].p2] = 0

\* The participant of a terminal queue k with HP left when exactly one has
\* HP 0, else None.
Winner(k) ==
    IF heap.hp[heap.q[k].p1] = 0 /\ heap.hp[heap.q[k].p2] # 0 THEN heap.q[k].p2
    ELSE IF heap.hp[heap.q[k].p2] = 0 /\ heap.hp[heap.q[k].p1] # 0 THEN heap.q[k].p1
    ELSE None

\* The character at the head of queue k after pruning, the first
\* participant when nothing is left.
HeadOf(k) ==
    IF clean_queue(heap, k).q[k].content # <<>>
    THEN clean_queue(heap, k).q[k].content[1]
    ELSE heap.q[k].p1

\* The score of a terminal queue k: the winner's HP when the winner is the
\* head, minus the winner's HP when it is not, 0 without a winner.
TerminalScore(k) ==
    IF Winner(k) = None THEN 0
    ELSE IF Winner(k) = HeadOf(k) THEN heap.hp[Winner(k)]
    ELSE -1 * heap.hp[Winner(k)]

\* A call of get_state_score, or of iterative_get_score, has returned a
\* score for queue k.
Scored(k) ==
    /\ lastOp.q = k
    /\ ~lastOp.b
    /\ \/ lastOp.op = "get_state_score"
       \/ lastOp.op = "iterative_get_score" /\ stack = <<>>

\* C12: the score get_state_score and iterative_get_score return for a
\* terminal queue with two participants is the winner's HP when the winner
\* is peek(), minus the winner's HP when it is the other, 0 when there is
\* no winner.
C12_TerminalScore ==
    \A k \in Queues :
       (Scored(k) /\ Bound(k) /\ Terminal(k)) => lastOp.ret = TerminalScore(k)

\* iterative_get_score has returned minus the winner's HP for a queue whose
\* head is the loser.
C12_Witness ==
    \E k \in Queues :
       /\ lastOp.op = "iterative_get_score"
       /\ Scored(k) /\ Bound(k) /\ Terminal(k)
       /\ Winner(k) # None
       /\ Winner(k) # HeadOf(k)
       /\ lastOp.ret < 0

\* ------------------------------------------------- the end of a duel
\* The queue driven through its own methods, for two characters whose HP
\* may be 0 and whose SP may be too low for any move.
SpecOver == InitTerminal /\ [][NextQueue]_vars

\* C13: get_winner() on a queue with two participants returns, when the
\* queue is terminal, the participant with HP left when exactly one has
\* HP 0 and None when both have HP 0 or none has; when the queue is not
\* terminal it returns None.
\* Refuted: with both at HP 0 the first test, _p1.get_hp() == 0, holds and
\* _p2 is returned.
C13_WinnerOfTerminal ==
    \A k \in Queues :
       (lastOp.op = "get_winner" /\ lastOp.q = k /\ Bound(k))
       => lastOp.ret = IF Terminal(k) THEN Winner(k) ELSE None

\* C14: when both participants of a queue have HP 0, the score
\* get_state_score and iterative_get_score return is 0, whichever of the
\* two is at the head and whichever was added first.
C14_BothDeadScoresZero ==
    \A k \in Queues :
       (/\ Scored(k) /\ Bound(k)
        /\ heap.hp[heap.q[k].p1] = 0
        /\ heap.hp[heap.q[k].p2] = 0)
       => lastOp.ret = 0

\* get_state_score has returned for a queue whose participants both have
\* HP 0 and whose head is the second participant.
C14_Witness ==
    \E k \in Queues :
       /\ lastOp.op = "get_state_score"
       /\ Scored(k) /\ Bound(k)
       /\ heap.hp[heap.q[k].p1] = 0
       /\ heap.hp[heap.q[k].p2] = 0
       /\ heap.q[k].content # <<>>
       /\ HeadOf(k) = heap.q[k].p2

\* C15: is_over() returns True exactly when the sequence is empty after
\* pruning the leading entries that have no legal action, or the first or
\* the second participant has HP 0; otherwise it returns False.
C15_IsOverIffTerminal ==
    \A k \in Queues :
       (lastOp.op = "is_over" /\ lastOp.q = k)
       => /\ lastOp.ret # Error
          /\ lastOp.b =
               (\/ clean_queue(heap, k).q[k].content = <<>>
                \/ (Bound(k) /\ (\/ heap.hp[heap.q[k].p1] = 0
                                 \/ heap.hp[heap.q[k].p2] = 0)))

\* is_over() has returned True for a queue that still holds an entry with
\* a legal action, because the second participant alone has HP 0.
C15_Witness ==
    \E k \in Queues :
       /\ lastOp.op = "is_over" /\ lastOp.q = k /\ lastOp.b
       /\ Bound(k)
       /\ heap.q[k].content # <<>>
       /\ heap.hp[heap.q[k].p1] # 0
       /\ heap.hp[heap.q[k].p2] = 0

\* ---- what copy() returns
\* Queue n of heap G mirrors queue k of heap H: same length, at each
\* position the clone of the same side, participants with the source's HP
\* and SP that are each other's enemy, and the same ledger when restricted.
Mirrors(G, n, H, k) ==
    /\ Len(G.q[n].content) = Len(H.q[k].content)
    /\ \A i \in 1..Len(H.q[k].content) :
          G.q[n].content[i] = IF H.q[k].content[i] = H.q[k].p1
                              THEN G.q[n].p1 ELSE G.q[n].p2
    /\ G.hp[G.q[n].p1] = H.hp[H.q[k].p1]
    /\ G.hp[G.q[n].p2] = H.hp[H.q[k].p2]
    /\ G.sp[G.q[n].p1] = H.sp[H.q[k].p1]
    /\ G.sp[G.q[n].p2] = H.sp[H.q[k].p2]
    /\ G.enemy[G.q[n].p1] = G.q[n].p2
    /\ G.enemy[G.q[n].p2] = G.q[n].p1
    /\ G.q[n].restricted = H.q[k].restricted
    /\ H.q[k].restricted => G.q[n].can_add = H.q[k].can_add

\* C16: copy() returns a queue whose sequence has the length of the
\* source's and holds at each position the clone of the same side, whose
\* participants have the source's HP and SP and are each other's enemy, and
\* whose ledger, for a RestrictedBattleQueue, equals the source's; the call
\* neither prunes nor otherwise changes the source.
C16_CopyMirrorsSource ==
    [][(lastOp'.op = "copy" /\ ~lastOp'.b)
       => /\ lastOp'.ret \in DOMAIN heap'.q \ DOMAIN heap.q
          /\ Mirrors(heap', lastOp'.ret, heap, lastOp'.q)
          /\ graph(heap', lastOp'.q) = graph(heap, lastOp'.q)]_vars

\* copy() has returned for a queue of two entries of different sides whose
\* head has no legal action, and the copy has both entries too.
C16_Witness ==
    /\ lastOp.op = "copy" /\ ~lastOp.b
    /\ Len(heap.q[lastOp.q].content) = 2
    /\ heap.q[lastOp.q].content[1] # heap.q[lastOp.q].content[2]
    /\ get_available_actions(heap, heap.q[lastOp.q].content[1]) = <<>>
    /\ heap.q[lastOp.q].restricted
    /\ Len(heap.q[lastOp.ret].content) = 2

\* C17: remove() on a queue whose sequence is empty after pruning the
\* leading entries with no legal action raises an error and returns no
\* combatant, for BattleQueue and RestrictedBattleQueue alike.
C17_RemoveFromEmptyRaises ==
    [][\A k \in Queues :
          (/\ lastOp'.op = "remove" /\ lastOp'.q = k
           /\ clean_queue(heap, k).q[k].content = <<>>)
          => /\ lastOp'.ret = Error
             /\ heap'.q[k].content = <<>>]_vars

\* remove() has raised on a RestrictedBattleQueue whose ledger was longer
\* than its sequence when it was called: its entries were pruned, not
\* removed.
C17_Witness ==
    \E k \in Queues :
       /\ lastOp.op = "remove" /\ lastOp.q = k /\ lastOp.ret = Error
       /\ lastOp.b
       /\ heap.q[k].restricted
       /\ heap.q[k].content = <<>>

\* ---- a queue whose first combatant has no enemy
\* A character is constructed with enemy = None; the queue it is added to
\* first takes that None as its second participant.
LoneClasses == {"rogue", "mage"}
LoneHp == {0, 8}
LoneSp == {0, 3, 10}

LoneHeap(restricted, cls, hp, sp) ==
    [hp    |-> (1 :> hp),
     sp    |-> (1 :> sp),
     cls   |-> (1 :> cls),
     enemy |-> (1 :> None),
     bq    |-> (1 :> 1),
     q     |-> (1 :> NewQueue(restricted))]

InitLone ==
    /\ \E restricted \in BOOLEAN, cls \in LoneClasses,
          hp \in LoneHp, sp \in LoneSp :
          heap = LoneHeap(restricted, cls, hp, sp)
    /\ lastOp = Op("init", None, None, None, FALSE)
    /\ calls = 0
    /\ tree = <<>>
    /\ stack = <<>>

\* The queue under its API, copy() included.
NextLoneQueue ==
    \/ NextQueue
    \/ \E k \in Queues : Copy(k)

SpecLoneQueue == InitLone /\ [][NextLoneQueue]_vars

\* C18: copy() on a queue to which no combatant was ever added, or whose
\* second participant is unbound because the first combatant added had no
\* enemy, raises an error and returns no queue.
C18_CopyOfUnboundRaises ==
    [][\A k \in Queues :
          (/\ lastOp'.op = "copy" /\ lastOp'.q = k
           /\ (heap.q[k].p1 = None \/ heap.q[k].p2 = None))
          => /\ lastOp'.b
             /\ lastOp'.ret = Error
             /\ DOMAIN heap'.q = DOMAIN heap.q]_vars

\* copy() has raised on a queue that holds its first participant, the
\* second being unbound.
C18_Witness ==
    \E k \in Queues :
       /\ lastOp.op = "copy" /\ lastOp.q = k /\ lastOp.b
       /\ heap.q[k].p1 # None
       /\ heap.q[k].p2 = None
       /\ heap.q[k].content # <<>>

\* The engines on a queue whose first combatant has no enemy.
NextLone ==
    \/ \E k \in Queues : \E c \in CharactersOf(k) : Add(k, c)
    \/ \E k \in Queues : Peek(k)
    \/ \E k \in Queues : GetStateScore(k)
    \/ \E k \in Queues : IterativeGetScore(k)

SpecLone == InitLone /\ [][NextLone]_vars

\* C19: on a queue to which only one participant was ever added and whose
\* enemy is unbound, get_state_score and iterative_get_score raise an error
\* rather than return a score, whatever the HP and SP of that participant.
\* Refuted: with HP 0 is_over() is true and get_winner() returns the unbound
\* second participant, None, so get_state_score returns 0.
C19_ScoringLoneRaises ==
    \A k \in Queues :
       (/\ lastOp.op \in {"get_state_score", "iterative_get_score"}
        /\ lastOp.q = k
        /\ heap.q[k].p1 # None
        /\ heap.q[k].p2 = None)
       => lastOp.b

\* ---- the two participants
\* C20: the first add sets the two participants, the combatant added and
\* its enemy; from then on no add, remove, peek, is_empty, is_over or
\* get_winner changes either of them, also after the sequence has drained
\* and has been refilled starting with the other combatant.
C20_ParticipantsFixed ==
    [][\A k \in Queues :
          IF heap.q[k].p1 = None
          THEN (lastOp'.op = "add" /\ lastOp'.q = k)
               => /\ heap'.q[k].p1 = lastOp'.c
                  /\ heap'.q[k].p2 = heap.enemy[lastOp'.c]
          ELSE /\ heap'.q[k].p1 = heap.q[k].p1
               /\ heap'.q[k].p2 = heap.q[k].p2]_vars

\* The second participant has been added to a queue that was empty: the
\* queue had drained, and the first participant is still the one first
\* added.
C20_Witness ==
    \E k \in Queues :
       /\ lastOp.op = "add" /\ lastOp.q = k
       /\ heap.q[k].restricted
       /\ heap.q[k].content = <<lastOp.c>>
       /\ heap.q[k].p2 = lastOp.c
       /\ heap.q[k].p1 # lastOp.c
       /\ heap.q[k].p1 # None

\* ---- pruning
\* The head of queue k, if any, has a legal action.
HeadCanAct(k) ==
    \/ heap.q[k].content = <<>>
    \/ get_available_actions(heap, heap.q[k].content[1]) # <<>>

\* C21: immediately after peek(), is_empty() or is_over() returns, the
\* sequence is empty or its head has at least one legal action; whenever
\* peek() returns an entry of the sequence, that combatant has a legal
\* action.
C21_HeadCanActAfterPruning ==
    \A k \in Queues :
       (lastOp.op \in {"peek", "is_empty", "is_over"} /\ lastOp.q = k)
       => /\ HeadCanAct(k)
          /\ (lastOp.op = "peek" /\ heap.q[k].content # <<>>)
             => /\ lastOp.ret = heap.q[k].content[1]
                /\ get_available_actions(heap, lastOp.ret) # <<>>

\* peek() has returned the head of a RestrictedBattleQueue whose ledger is
\* longer than its sequence: entries ahead of it were pruned.
C21_Witness ==
    \E k \in Queues :
       /\ lastOp.op = "peek" /\ lastOp.q = k
       /\ heap.q[k].restricted
       /\ heap.q[k].content # <<>>
       /\ lastOp.ret = heap.q[k].content[1]
       /\ Len(heap.q[k].can_add) > Len(heap.q[k].content)

\* C22: peek() does not remove the entry it returns: the entry is still
\* the head, and a second peek() made at once returns the same combatant
\* and leaves the queue as it is; when pruning has emptied the sequence,
\* peek() returns the first participant.
C22_PeekKeepsHead ==
    \A k \in Queues :
       (lastOp.op = "peek" /\ lastOp.q = k)
       => /\ lastOp.ret = IF heap.q[k].content # <<>>
                          THEN heap.q[k].content[1] ELSE heap.q[k].p1
          /\ peek(heap, k).ret = lastOp.ret
          /\ peek(heap, k).h = heap

\* peek() has returned the first participant of a RestrictedBattleQueue
\* whose entries were all pruned: the ledger still lists them.
C22_Witness ==
    \E k \in Queues :
       /\ lastOp.op = "peek" /\ lastOp.q = k
       /\ heap.q[k].restricted
       /\ heap.q[k].content = <<>>
       /\ heap.q[k].can_add # <<>>
       /\ heap.q[k].p1 # None
       /\ lastOp.ret = heap.q[k].p1

\* ---- the queue the engines are given
\* The calls of the engines.
EngineCalls ==
    {"get_state_score", "iterative_get_score",
     "RecursiveMinimax.select_attack", "IterativeMinimax.select_attack"}

\* C23: none of RecursiveMinimax.select_attack, IterativeMinimax.select_attack,
\* get_state_score and iterative_get_score changes the queue passed to it:
\* its sequence, its ledger and the HP and SP of its combatants are after
\* the call what they were before.
\* Refuted: get_state_score starts with battle_queue.is_over() on the queue
\* itself, which prunes the leading entries that have no legal action.
C23_EnginesLeaveQueue ==
    [][\A k \in Queues :
          (lastOp'.op \in EngineCalls /\ lastOp'.q = k)
          => graph(heap', k) = graph(heap, k)]_vars

\* ---- the engines on a queue that has been played on
\* The two scoring engines; between two calls the queue's head may be
\* removed, as a turn of the game does.
NextScoring ==
    \/ \E k \in Queues : stack = <<>> /\ Remove(k)
    \/ \E k \in Queues : GetStateScore(k)
    \/ \E k \in Queues : IterativeGetScore(k)
    \/ ScoreTerminal
    \/ Expand
    \/ Fold

\* A turn of iterative_get_score's while loop, seen from its stack: the
\* top is popped, children are pushed, or a raise ends the loop. No other
\* step is taken while the stack holds a node.
TurnOfLoop ==
    /\ stack # <<>>
    /\ \/ stack' = <<>>
       \/ stack' = SubSeq(stack, 1, Len(stack) - 1)
       \/ Len(stack') > Len(stack)

\* 'while stack:' keeps turning as long as the stack holds a node.
SpecScoringFair ==
    /\ InitSearch
    /\ [][NextScoring]_vars
    /\ WF_stack(TurnOfLoop)

\* iterative_get_score is in its loop on queue k.
InLoop(k) == lastOp.op = "iterative_get_score" /\ lastOp.q = k /\ stack # <<>>

\* iterative_get_score has left its loop on queue k with the root's score.
RootScored(k) ==
    /\ lastOp.op = "iterative_get_score" /\ lastOp.q = k
    /\ stack = <<>>
    /\ ~lastOp.b
    /\ tree # <<>>
    /\ tree[root].score # <<>>

\* C24: for every queue with two participants (SP is finite and every
\* move costs SP), get_state_score returns, and the stack of
\* iterative_get_score becomes empty with the root's score assigned.
\* Refuted: both engines end, but by the IndexError of C30 when the only
\* entries are the second participant's and its move leaves it without SP.
C24_SearchReturns ==
    /\ [](\A k \in Queues :
            (lastOp.op = "get_state_score" /\ lastOp.q = k /\ Bound(k))
            => ~lastOp.b)
    /\ \A k \in {1} : InLoop(k) ~> RootScored(k)

\* ---- the scenario of a lethal special attack
\* A has HP 100 and is added first, B has HP 3; every order of adding that
\* starts with A is tried, with A as the first or the second character
\* constructed.
ScenarioPairs == {<<"rogue", "rogue">>, <<"rogue", "mage">>, <<"mage", "rogue">>}
ScenarioSpA == {3, 5, 10, 30, 40}
ScenarioSpB == {0, 10}
ScenarioOrders == {o \in Orders(MaxSearchLen) : o # <<>>}

ScenarioHeap(restricted, classes, spA, spB, order) ==
    IF order[1] = 1
    THEN build(NewHeap(restricted, classes, <<100, 3>>, <<spA, spB>>), order, 1)
    ELSE build(NewHeap(restricted, <<classes[2], classes[1]>>, <<3, 100>>,
                       <<spB, spA>>), order, 1)

InitScenario ==
    /\ \E restricted \in BOOLEAN, classes \in ScenarioPairs,
          spA \in ScenarioSpA, spB \in ScenarioSpB, order \in ScenarioOrders :
          heap = ScenarioHeap(restricted, classes, spA, spB, order)
    /\ lastOp = Op("init", None, None, None, FALSE)
    /\ calls = 0
    /\ tree = <<>>
    /\ stack = <<>>

\* The step the engines make on a copy has been made on queue k by the
\* character p.ret; m is what move returned.
Moved(op, k, p, m) ==
    /\ heap' = m.h
    /\ lastOp' = Op(op, k, p.ret, IF m.raised THEN Error ELSE None, m.raised)
    /\ UNCHANGED <<calls, tree, stack>>

\* peek() makes the move when it is valid, then the queue is advanced as
\* the engines advance a copy; made on a queue that is not over.
SearchMove(k, action) ==
    /\ stack = <<>>
    /\ ~is_over(heap, k).raised
    /\ ~is_over(heap, k).ret
    /\ is_valid_action(heap, peek(heap, k).ret, action)
    /\ Moved(IF action = "S" THEN "special_attack, advance"
             ELSE "attack, advance",
             k, peek(heap, k), move(heap, k, action))

NextScenario ==
    \/ \E k \in Queues : \E action \in {"A", "S"} : SearchMove(k, action)
    \/ \E k \in Queues : GetStateScore(k)
    \/ \E k \in Queues : IterativeGetScore(k)
    \/ ScoreTerminal
    \/ Expand
    \/ Fold
    \/ \E k \in Queues : RecursiveSelectAttack(k)
    \/ \E k \in Queues : IterativeSelectAttack(k)

SpecScenario == InitScenario /\ [][NextScenario]_vars

\* Queue k is in the scenario: its head A has HP 100, A's enemy B has HP 3,
\* and A's special attack is affordable and leaves B with HP 0.
LethalSpecial(k) ==
    /\ Bound(k)
    /\ heap.q[k].content # <<>>
    /\ heap.hp[HeadOf(k)] = 100
    /\ heap.hp[heap.enemy[HeadOf(k)]] = 3
    /\ is_valid_action(heap, HeadOf(k), "S")
    /\ special_attack(heap, HeadOf(k)).hp[heap.enemy[HeadOf(k)]] = 0

\* C25: with A (HP 100) at the head against B (HP 3), A's special attack
\* being affordable and killing B in one hit, select_attack returns 'S'.
\* Refuted: A's attack is affordable and lethal too, both moves score 100,
\* and select_attack tests the attack's score first.
C25_LethalSpecialSelected ==
    \A k \in Queues :
       (/\ lastOp.op \in {"RecursiveMinimax.select_attack",
                          "IterativeMinimax.select_attack"}
        /\ lastOp.q = k
        /\ LethalSpecial(k))
       => lastOp.ret = "S"

\* A's special attack has just been made on queue k, the queue has been
\* advanced, and B is dead.
AfterLethalSpecial(k) ==
    /\ lastOp.op = "special_attack, advance" /\ lastOp.q = k
    /\ ~lastOp.b
    /\ heap.hp[lastOp.c] = 100
    /\ heap.hp[heap.enemy[lastOp.c]] = 0

\* C26: in the scenario, the state reached by A's lethal special attack,
\* once advanced as the search advances it, is terminal, and
\* get_state_score and iterative_get_score of that state equal A's HP.
\* Refuted: when B follows A in the sequence and has a legal action, B is
\* peek() of that state and the score is minus A's HP.
C26_LethalStateScoresHp ==
    \A k \in Queues :
       AfterLethalSpecial(k)
       => /\ is_over(heap, k).ret
          /\ get_state_score(heap, k).ret = heap.hp[lastOp.c]
          /\ iterative_get_score(heap, k).ret = heap.hp[lastOp.c]

\* ---- how the sequence changes
\* t is s with one entry appended.
IsAppend(s, t) == Len(t) = Len(s) + 1 /\ SubSeq(t, 1, Len(s)) = s

\* t is s without its first n entries, for some n.
IsSuffix(s, t) ==
    Len(t) <= Len(s) /\ t = SubSeq(s, Len(s) - Len(t) + 1, Len(s))

\* C27: every change that add, remove, peek, is_empty, is_over or
\* get_winner makes to a queue's sequence is the append of exactly one
\* entry at the tail or the deletion of a prefix; nothing is inserted,
\* deleted or reordered anywhere else.
C27_TailGrowsHeadShrinks ==
    [][\A k \in Queues :
          \/ IsAppend(heap.q[k].content, heap'.q[k].content)
          \/ IsSuffix(heap.q[k].content, heap'.q[k].content)]_vars

\* is_over() has left a RestrictedBattleQueue with an entry in its sequence
\* and one more in its ledger: a prefix was pruned and the rest kept.
C27_Witness ==
    \E k \in Queues :
       /\ lastOp.op = "is_over" /\ lastOp.q = k
       /\ heap.q[k].restricted
       /\ heap.q[k].content # <<>>
       /\ Len(heap.q[k].can_add) = Len(heap.q[k].content) + 1

\* ---- a character's first add
\* C28: the first time a character is added to a RestrictedBattleQueue (it
\* has no occurrence in the sequence), the add takes effect and the new
\* entry is flagged able to add.
\* Refuted: when the ledger's first flag is 'no' the add is dropped before
\* the character is looked for in the sequence.
C28_FirstAddTakesEffect ==
    [][\A k \in Restricted :
          (/\ lastOp'.op = "add" /\ lastOp'.q = k
           /\ \A i \in 1..Len(heap.q[k].content) :
                 heap.q[k].content[i] # lastOp'.c)
          => /\ heap'.q[k].content = Append(heap.q[k].content, lastOp'.c)
             /\ heap'.q[k].can_add = Append(heap.q[k].can_add, "yes")]_vars

\* ---- the child states of the search
\* The engines, the step they make on a copy, and remove(), on queues
\* built by add.
NextDuel ==
    \/ \E k \in Queues : stack = <<>> /\ Remove(k)
    \/ \E k \in Queues : \E action \in {"A", "S"} : SearchMove(k, action)
    \/ \E k \in Queues : GetStateScore(k)
    \/ \E k \in Queues : IterativeGetScore(k)
    \/ ScoreTerminal
    \/ Expand
    \/ Fold
    \/ \E k \in Queues : RecursiveSelectAttack(k)
    \/ \E k \in Queues : IterativeSelectAttack(k)

SpecDuel == InitSearch /\ [][NextDuel]_vars

\* The move whose step has just been made.
MoveMade(op) == IF op = "special_attack, advance" THEN "S" ELSE "A"

\* Queue k once the move is made and the peek() that follows has pruned.
AfterMove(k, action) == peek(make_move(peek(heap, k), action), k).h

\* C29: when a child state is built, remove() is called exactly when the
\* combatant that just acted still has a legal action; when it has none,
\* no further entry is removed, and the entry that followed the actor is
\* the child's head.
\* Refuted: the test is made on peek(), which is the entry after the actor
\* once the actor is pruned; when that entry has an action it is removed.
C29_RemoveIffActorCanAct ==
    [][\A k \in Queues :
          (/\ lastOp'.op \in {"attack, advance", "special_attack, advance"}
           /\ lastOp'.q = k)
          => heap'.q[k].content =
               IF get_available_actions(AfterMove(k, MoveMade(lastOp'.op)),
                                        lastOp'.c) # <<>>
               THEN Tail(AfterMove(k, MoveMade(lastOp'.op)).q[k].content)
               ELSE AfterMove(k, MoveMade(lastOp'.op)).q[k].content]_vars

\* C30: for every queue with two participants that is not over, building
\* a child (a move, then remove() when peek() has an action) never calls
\* remove() on a sequence that prunes to empty, so neither the step nor an
\* engine raises; also when the mover uses up its SP, the sequence drains,
\* and peek() falls back to a first participant that has an action.
\* Refuted: in that very case peek() is the first participant, it has an
\* action, and remove() is called on the empty sequence.
C30_SearchNeverRaises ==
    [][\A k \in Queues :
          (/\ lastOp'.op \in EngineCalls
                             \cup {"attack, advance", "special_attack, advance"}
           /\ lastOp'.q = k
           /\ Bound(k)
           /\ ~is_over(heap, k).ret)
          => ~lastOp'.b]_vars



\* ------------------------------------------------------- the loop's turns
\* A child's score as the node's side sees it: unchanged when peek() of the
\* child is the participant that peek() of the node is, negated when not.
side_score(player, n, score) ==
    IF n.ret = player.ret THEN score ELSE -1 * score

\* The maximum of the children's scores of node n, each as n's side sees it.
side_fold(n) ==
    Max({side_score(peek(tree[n].state, 1),
                    peek(tree[tree[n].children[i]].state, 1),
                    tree[tree[n].children[i]].score[1]) :
           i \in 1..Len(tree[n].children)})

\* The loop is about to fold the node on top of the stack.
AboutToFold ==
    /\ stack # <<>>
    /\ ~is_over(Top.state, 1).ret
    /\ Top.children # <<>>

\* C31: the fold step of iterative_get_score takes a child's score unchanged
\* exactly when peek() of the child is the same participant as peek() of the
\* node, and negated exactly when it is the other one, also between two
\* characters of one class.
\* Refuted: the fold compares type(child.state.peek()) with type(player), so
\* between two characters of one class no score is negated.
C31_FoldSignsBySide ==
    [][AboutToFold
       => tree'[stack[Len(stack)]].score = <<side_fold(stack[Len(stack)])>>]_vars


\* Every child of node n has its score.
ChildrenScored(n) ==
    \A i \in 1..Len(tree[n].children) : tree[tree[n].children[i]].score # <<>>

\* The turn of the loop that pops node n moves it one stage on: a node
\* without a score gets its score, or, having no children, gets children;
\* a node goes through two stages at most.
StageGained(n) ==
    /\ tree[n].score = <<>>
    /\ \/ tree'[n].score # <<>>
       \/ tree[n].children = <<>> /\ tree'[n].children # <<>>

\* C32: in iterative_get_score a node that is not over and is popped with
\* its children built finds every child scored, and no node is popped more
\* than twice: a popped node has no score yet, and the pop gives it its
\* score or, when it has no children, its children.
C32_ChildrenFirstTwoPops ==
    /\ [](AboutToFold => ChildrenScored(stack[Len(stack)]))
    /\ [][stack # <<>> => StageGained(stack[Len(stack)])]_vars

\* The loop is about to fold a node below the root that has two children.
C32_Witness ==
    /\ AboutToFold
    /\ stack[Len(stack)] # root
    /\ Len(Top.children) = 2
    /\ ChildrenScored(stack[Len(stack)])



\* ------------------------------------------------- the ledger's stale head
\* The entries of the ledger of queue k of heap H that stand for no entry
\* of the sequence.
stale(H, k) == Len(H.q[k].can_add) - Len(H.q[k].content)

\* The calls that prune: peek, is_empty, is_over, get_winner (by is_over),
\* and an attack or special attack made as bq.peek().attack().
PruningCalls ==
    {"peek", "is_empty", "is_over", "get_winner", "attack", "special_attack"}

\* C33: on a RestrictedBattleQueue the ledger is always at least as long as
\* the sequence and its last len(sequence) entries are the flags the entries
\* of the sequence were given when appended; the entries before them appear
\* only by the pruning of peek, is_empty or is_over, and a remove() that
\* returns a character leaves none of them.
C33_StaleOnlyAtFront ==
    /\ [](\A k \in Restricted :
             /\ stale(heap, k) >= 0
             /\ IsSuffix(heap.q[k].can_add, heap.q[k].flag))
    /\ [][\A k \in Restricted :
             /\ stale(heap', k) > stale(heap, k)
                => lastOp'.op \in PruningCalls /\ lastOp'.q = k
             /\ (lastOp'.op = "remove" /\ lastOp'.q = k /\ lastOp'.ret # Error)
                => stale(heap', k) = 0]_vars

\* A ledger with a stale entry at its front, an entry of each flag behind
\* it, and an add made on it.
C33_Witness ==
    \E k \in Restricted :
       /\ lastOp.op = "add"
       /\ lastOp.q = k
       /\ stale(heap, k) > 0
       /\ \E i, j \in 1..Len(heap.q[k].flag) :
             heap.q[k].flag[i] = "yes" /\ heap.q[k].flag[j] = "no"


\* The loop is about to expand the node on top of the stack.
AboutToExpand ==
    /\ stack # <<>>
    /\ ~is_over(Top.state, 1).ret
    /\ Top.children = <<>>

\* The turn that pops node n hands it children: at least one, all of them
\* new nodes, pushed above n.
Expanded(n) ==
    /\ tree'[n].children # <<>>
    /\ \A i \in 1..Len(tree'[n].children) :
          tree'[n].children[i] \notin DOMAIN tree
    /\ ~lastOp'.b => stack' = stack \o tree'[n].children

affordable_scores(k) ==
    {recursive_explore(copy(heap, k), a, None).ret :
       a \in {b \in {"A", "S"} :
                is_valid_action(peek(heap, k).h, peek(heap, k).ret, b)}}

\* get_state_score returned a score for queue k, which has its two
\* participants and is not over.
ScoredInPlay(k) ==
    /\ lastOp.op = "get_state_score"
    /\ lastOp.q = k
    /\ ~lastOp.b
    /\ Bound(k)
    /\ ~is_over(heap, k).ret

\* C35: the score get_state_score returns for a queue that is not over is
\* the maximum of the signed scores of the moves peek() can afford, never
\* one of the two values the scores start with, and is the score
\* iterative_get_score returns for the queue.
\* Refuted: the score is the maximum over the affordable moves, but between
\* two characters of one class iterative_get_score returns another (C31,
\* C1).
C35_MaxOverAffordable ==
    \A k \in Queues :
       ScoredInPlay(k)
       => /\ lastOp.ret \notin {score_copy1_unset, score_copy2_unset}
          /\ lastOp.ret = Max(affordable_scores(k))
          /\ ~iterative_get_score(heap, k).raised
          /\ lastOp.ret = iterative_get_score(heap, k).ret



\* ------------------------------------------------------ the label chosen
SelectCalls ==
    {"RecursiveMinimax.select_attack", "IterativeMinimax.select_attack"}

\* A select_attack returned a label for queue k.
Chosen(k) == lastOp.op \in SelectCalls /\ lastOp.q = k /\ ~lastOp.b

\* Whether action is valid for peek() of queue k.
CanMake(k, action) ==
    is_valid_action(peek(heap, k).h, peek(heap, k).ret, action)

\* C36: when 'A' or 'S' is valid for the character queue.peek() returns,
\* the label either select_attack returns is one valid for that character,
\* never the label of a move it cannot afford.
C36_LabelIsAffordable ==
    \A k \in Queues :
       (Chosen(k) /\ peek(heap, k).ret # None
                  /\ (CanMake(k, "A") \/ CanMake(k, "S")))
       => lastOp.ret \in {"A", "S"} /\ CanMake(k, lastOp.ret)

\* A select_attack returned 'A' for a character that can afford the attack
\* and not the special attack.
C36_Witness ==
    \E k \in Queues :
       /\ Chosen(k)
       /\ peek(heap, k).ret # None
       /\ CanMake(k, "A")
       /\ ~CanMake(k, "S")
       /\ lastOp.ret = "A"



\* --------------------------------------------------- duels of one class
\* Duels of two characters of one class, one of them near its end.
LabelPairs == {<<"rogue", "rogue">>, <<"mage", "mage">>}
LabelHp == {1, 15}
LabelSp == {0, 10}

InitLabel ==
    /\ \E restricted \in BOOLEAN, classes \in LabelPairs,
          hps \in LabelHp \X LabelHp, sps \in LabelSp \X LabelSp,
          order \in Orders(MaxSearchLen) :
          heap = build(NewHeap(restricted, classes, hps, sps), order, 1)
    /\ lastOp = Op("init", None, None, None, FALSE)
    /\ calls = 0
    /\ tree = <<>>
    /\ stack = <<>>

SpecLabel == InitLabel /\ [][NextSearch]_vars

\* The score of a move for peek() of queue k: the score of the state the
\* move leads to, as the mover sees it.
move_score(k, action) == recursive_explore(copy(heap, k), action, None)

\* C37: when peek() can afford both moves and they have equal scores, both
\* select_attack return 'A'; 'S' is returned only when the special attack
\* has the strictly higher score.
\* Refuted: IterativeMinimax compares the scores of iterative_get_score,
\* which between two characters of one class are not the moves' scores
\* (C31), and returns 'S' for a special attack with the lower score.
C37_TieGoesToAttack ==
    \A k \in Queues :
       (/\ Chosen(k)
        /\ Bound(k)
        /\ CanMake(k, "A")
        /\ CanMake(k, "S")
        /\ ~move_score(k, "A").raised
        /\ ~move_score(k, "S").raised)
       => /\ move_score(k, "A").ret = move_score(k, "S").ret
             => lastOp.ret = "A"
          /\ lastOp.ret = "S"
             => move_score(k, "S").ret > move_score(k, "A").ret

=============================================================================
